---- MODULE Spec2Model ----
(***************************************************************************)
(* Model of the socioeconomic-index pipeline of src/src/utils.py and       *)
(* src/src/train.py: calcular_pesos_correlacao,                            *)
(* calcular_classificacao_indice, preparar_dados_para_modelo and           *)
(* calcular_indice_socioeconomico, called by a caller that keeps the raw   *)
(* table (database), the latest returned normalized table (df) and the     *)
(* latest returned weight vector (pesos).                                  *)
(*                                                                         *)
(* Numbers.  A float is a record [n, d]: the rational n/d in lowest terms  *)
(* when d > 0, NaN when d = 0 and n = 0, +inf / -inf when d = 0 and        *)
(* n = 1 / -1.  Arithmetic on finite values is exact; the one irrational   *)
(* step, the square root inside Pearson's r, is truncated to three         *)
(* decimals.                                                               *)
(*                                                                         *)
(* Tables.  A DataFrame is [cols |-> set of column names, rows |-> a       *)
(* sequence of [id |-> row label, v |-> [cols -> value]]].  The label      *)
(* 'médio' is written "medio".                                             *)
(***************************************************************************)
EXTENDS Integers, Sequences, FiniteSets

\* ------------------------------------------------------------------ bounds
MaxRows == 3

\* ----------------------------------------------------------------- numbers
RECURSIVE GCD(_, _)
GCD(a, b) == IF b = 0 THEN a ELSE GCD(b, a % b)

Abs(i) == IF i < 0 THEN -i ELSE i

NaN == [n |-> 0, d |-> 0]
Inf(s) == [n |-> s, d |-> 0]
IsNaN(x) == x.d = 0 /\ x.n = 0
IsFinite(x) == x.d > 0

\* n/d in lowest terms, d # 0
Rat(n, d) ==
    LET g == GCD(Abs(n), Abs(d))
        s == IF d < 0 THEN -1 ELSE 1
    IN  [n |-> s * (n \div g), d |-> s * (d \div g)]

Num(i) == [n |-> i, d |-> 1]

LCM(a, b) == (a \div GCD(a, b)) * b

RAdd(x, y) ==
    IF IsNaN(x) \/ IsNaN(y) THEN NaN
    ELSE IF ~IsFinite(x) THEN (IF ~IsFinite(y) /\ y.n # x.n THEN NaN ELSE x)
    ELSE IF ~IsFinite(y) THEN y
    ELSE LET l == LCM(x.d, y.d)
         IN  Rat(x.n * (l \div x.d) + y.n * (l \div y.d), l)

RNeg(x) == [n |-> -x.n, d |-> x.d]

RSub(x, y) == RAdd(x, RNeg(y))

Sign(i) == IF i < 0 THEN -1 ELSE IF i > 0 THEN 1 ELSE 0

RMul(x, y) ==
    IF IsNaN(x) \/ IsNaN(y) THEN NaN
    ELSE IF ~IsFinite(x) \/ ~IsFinite(y)
         THEN (IF x.n = 0 \/ y.n = 0 THEN NaN ELSE Inf(Sign(x.n) * Sign(y.n)))
    ELSE LET g1 == GCD(Abs(x.n), y.d)
             g2 == GCD(Abs(y.n), x.d)
         IN  IF x.n = 0 \/ y.n = 0 THEN Num(0)
             ELSE [n |-> (x.n \div g1) * (y.n \div g2),
                   d |-> (x.d \div g2) * (y.d \div g1)]

\* IEEE division: 0/0 and NaN operands give NaN, nonzero/0 gives +-inf
RDiv(x, y) ==
    IF IsNaN(x) \/ IsNaN(y) THEN NaN
    ELSE IF ~IsFinite(x) THEN (IF ~IsFinite(y) THEN NaN
                               ELSE Inf(x.n * (IF y.n < 0 THEN -1 ELSE 1)))
    ELSE IF ~IsFinite(y) THEN Num(0)
    ELSE IF y.n = 0 THEN (IF x.n = 0 THEN NaN ELSE Inf(Sign(x.n)))
    ELSE RMul(x, Rat(y.d, y.n))

RAbs(x) == [n |-> Abs(x.n), d |-> x.d]

\* x <= y and x < y on finite values; any comparison with NaN is false
RLe(x, y) ==
    /\ IsFinite(x) /\ IsFinite(y)
    /\ LET l == LCM(x.d, y.d) IN x.n * (l \div x.d) <= y.n * (l \div y.d)
RLt(x, y) ==
    /\ IsFinite(x) /\ IsFinite(y)
    /\ LET l == LCM(x.d, y.d) IN x.n * (l \div x.d) < y.n * (l \div y.d)

\* floor of the square root, by bisection on lo..hi with lo^2 <= m < hi^2
RECURSIVE SqrtBisect(_, _, _)
SqrtBisect(m, lo, hi) ==
    IF hi - lo <= 1 THEN lo
    ELSE LET mid == (lo + hi) \div 2
         IN  IF mid * mid <= m THEN SqrtBisect(m, mid, hi)
             ELSE SqrtBisect(m, lo, mid)

Isqrt(m) == SqrtBisect(m, 0, 46341)

\* ------------------------------------------------------------ pandas pieces
RECURSIVE SeqSum(_)
SeqSum(s) == IF s = <<>> THEN 0 ELSE Head(s) + SeqSum(Tail(s))

\* Series.sum() / DataFrame.sum(axis=1): NaN entries are skipped, the empty
\* sum is 0
RECURSIVE SumSkipNa(_)
SumSkipNa(s) ==
    IF s = <<>> THEN Num(0)
    ELSE IF IsNaN(Head(s)) THEN SumSkipNa(Tail(s))
    ELSE RAdd(Head(s), SumSkipNa(Tail(s)))

\* Series.min() / Series.max(): NaN entries are skipped, NaN when nothing is left
RECURSIVE SeriesMin(_)
SeriesMin(s) ==
    IF s = <<>> THEN NaN
    ELSE LET r == SeriesMin(Tail(s))
         IN  IF IsNaN(Head(s)) THEN r
             ELSE IF IsNaN(r) \/ RLe(Head(s), r) THEN Head(s) ELSE r

RECURSIVE SeriesMax(_)
SeriesMax(s) ==
    IF s = <<>> THEN NaN
    ELSE LET r == SeriesMax(Tail(s))
         IN  IF IsNaN(Head(s)) THEN r
             ELSE IF IsNaN(r) \/ RLe(r, Head(s)) THEN Head(s) ELSE r

Range(s) == {s[i] : i \in DOMAIN s}

\* df[col] as a sequence of values in row order
Column(t, c) == [i \in DOMAIN t.rows |-> t.rows[i].v[c]]

\* df[col] = values (the column is added when it is new)
SetColumn(t, c, vals) ==
    [cols |-> t.cols \cup {c},
     rows |-> [i \in DOMAIN t.rows |->
                [id |-> t.rows[i].id,
                 v  |-> [k \in t.cols \cup {c} |->
                            IF k = c THEN vals[i] ELSE t.rows[i].v[k]]]]]

NoTable == [cols |-> {}, rows |-> <<>>]

\* the elements of a list of names
Names(l) == {l[i] : i \in DOMAIN l}

\* ------------------------------------------------------------ sklearn pieces
\* MinMaxScaler().fit_transform on one column: scale_ = 1 / data_range, where
\* a zero data_range is replaced by 1 (sklearn's _handle_zeros_in_scale),
\* min_ = 0 - data_min * scale_, result X * scale_ + min_
HandleZerosInScale(r) == IF IsFinite(r) /\ r.n = 0 THEN Num(1) ELSE r

\* Mutant: the columns scaled by hand, (x - min) / (max - min), the way the
\* index is rescaled, with no care for a zero range
MinMaxScaleByHand(xs) ==
    LET lo == SeriesMin(xs)
        hi == SeriesMax(xs)
    IN  [i \in DOMAIN xs |-> RDiv(RSub(xs[i], lo), RSub(hi, lo))]

MinMaxScale(xs) ==
    LET data_min   == SeriesMin(xs)
        data_max   == SeriesMax(xs)
        data_range == RSub(data_max, data_min)
        scale      == RDiv(Num(1), HandleZerosInScale(data_range))
        min_       == RSub(Num(0), RMul(data_min, scale))
    IN  [i \in DOMAIN xs |-> RAdd(RMul(xs[i], scale), min_)]

\* df[variaveis] = MinMaxScaler().fit_transform(df[variaveis]), column by column
RECURSIVE FitTransform(_, _)
FitTransform(t, variaveis) ==
    IF variaveis = <<>> THEN t
    ELSE FitTransform(SetColumn(t, Head(variaveis),
                                MinMaxScale(Column(t, Head(variaveis)))),
                      Tail(variaveis))

\* DataFrame.corr(): Pearson's r of two columns over the rows where both
\* have a value, r = Sxy / sqrt(Sxx * Syy) with Sxy = n*sum(xy) - sum(x)*sum(y);
\* NaN when a column has no variance (also for fewer than two rows).  The
\* sums are taken on the integer numerators over the columns' common
\* denominators, which r does not depend on; the square root is truncated,
\* r is kept to three decimals and is exact when Sxx * Syy is a perfect square.
Numerators(xs) ==
    LET RECURSIVE L(_)
        L(i) == IF i = 0 THEN 1 ELSE LCM(L(i - 1), xs[i].d)
        D == L(Len(xs))
    IN  [i \in DOMAIN xs |-> xs[i].n * (D \div xs[i].d)]

Corr(xs, ys) ==
    LET both == SelectSeq([i \in DOMAIN xs |-> <<xs[i], ys[i]>>],
                          LAMBDA p : IsFinite(p[1]) /\ IsFinite(p[2]))
        n   == Len(both)
        u   == Numerators([i \in DOMAIN both |-> both[i][1]])
        w   == Numerators([i \in DOMAIN both |-> both[i][2]])
        su  == SeqSum(u)
        sw  == SeqSum(w)
        Sxy == n * SeqSum([i \in DOMAIN u |-> u[i] * w[i]]) - su * sw
        Sxx == n * SeqSum([i \in DOMAIN u |-> u[i] * u[i]]) - su * su
        Syy == n * SeqSum([i \in DOMAIN w |-> w[i] * w[i]]) - sw * sw
        M   == Sxx * Syy
        s   == Isqrt(M)
        root100 == IF s * s = M THEN s * 100 ELSE Isqrt(M * 10000)
        frac == Rat(Abs(Sxy), root100)
    IN  IF M = 0 THEN NaN
        ELSE Rat(Sign(Sxy) * ((frac.n * 100000) \div frac.d), 1000)

NoPesos == [f \in {} |-> NaN]

\* list of a function's values in the order of a list of names
Along(variaveis, f) == [i \in DOMAIN variaveis |-> f[variaveis[i]]]

\* ------------------------------------------------------------------ utils.py
\* corrs = df_norm[variaveis].corr()[variavel_referencia].abs()
\* pesos = corrs / corrs.sum()
PesosDeCorrelacao(df_norm, variaveis, variavel_referencia) ==
    LET corrs == [f \in Names(variaveis) |->
                    RAbs(Corr(Column(df_norm, f),
                              Column(df_norm, variavel_referencia)))]
        total == SumSkipNa(Along(variaveis, corrs))
    IN  [f \in Names(variaveis) |-> RDiv(corrs[f], total)]

\* The result of a call: outcome ("ok" or the exception raised), caller (the
\* table object the caller passed in, as it is after the call), df_norm and
\* pesos (what is returned; nothing on an exception).
Raised(exc, caller) ==
    [outcome |-> exc, caller |-> caller, df_norm |-> NoTable, pesos |-> NoPesos]

calcular_pesos_correlacao(database, variaveis, variavel_referencia) ==
    \* df_norm = database.copy(): every later write goes to the new object
    IF ~(Names(variaveis) \subseteq database.cols)
    THEN Raised("KeyError", database)
    ELSE LET df_norm == FitTransform(database, variaveis)
         IN  IF variavel_referencia \notin Names(variaveis)
             THEN Raised("KeyError", database)
             ELSE [outcome |-> "ok", caller |-> database, df_norm |-> df_norm,
                   pesos |-> PesosDeCorrelacao(df_norm, variaveis,
                                               variavel_referencia)]

\* (df_norm[variaveis] * pesos).sum(axis=1) for one row: the product aligns
\* the weights with the columns by name, a column without a weight gives NaN,
\* and the sum skips NaN
WeightedSum(row, variaveis, pesos) ==
    SumSkipNa([i \in DOMAIN variaveis |->
                 IF variaveis[i] \in DOMAIN pesos
                 THEN RMul(row.v[variaveis[i]], pesos[variaveis[i]])
                 ELSE NaN])

\* (s - s.min()) / (s.max() - s.min())
Rescale(s) ==
    LET lo == SeriesMin(s)
        hi == SeriesMax(s)
    IN  [i \in DOMAIN s |-> RDiv(RSub(s[i], lo), RSub(hi, lo))]

IndiceSocioeconomico(df_norm, variaveis, pesos) ==
    Rescale([i \in DOMAIN df_norm.rows |->
               WeightedSum(df_norm.rows[i], variaveis, pesos)])

\* pd.cut(x, bins=[0, 0.33, 0.66, 1], labels=[...]): right-closed bins
\* (bins[k], bins[k+1]], no include_lowest; "NaN" outside every bin
Bins == <<Num(0), Rat(33, 100), Rat(66, 100), Num(1)>>
Labels == <<"baixo", "medio", "alto">>

InBin(x, k) == RLt(Bins[k], x) /\ RLe(x, Bins[k + 1])

pd_cut(x) ==
    IF \E k \in DOMAIN Labels : InBin(x, k)
    THEN Labels[CHOOSE k \in DOMAIN Labels : InBin(x, k)]
    ELSE "NaN"

\* df.dropna(subset=['indice_socioeconomico', 'classificacao'], inplace=True)
DropNa(t) ==
    [cols |-> t.cols,
     rows |-> SelectSeq(t.rows,
                LAMBDA r : ~IsNaN(r.v["indice_socioeconomico"])
                           /\ r.v["classificacao"] # "NaN")]

\* The table the function has built when it reaches its print statement:
\* the caller's object, written in place.
Classificado(df_norm, variaveis, pesos) ==
    LET t1 == SetColumn(df_norm, "indice_socioeconomico",
                        IndiceSocioeconomico(df_norm, variaveis, pesos))
        t2 == SetColumn(t1, "classificacao",
                        [i \in DOMAIN t1.rows |->
                           pd_cut(t1.rows[i].v["indice_socioeconomico"])])
    IN  DropNa(t2)

calcular_classificacao_indice(df_norm, variaveis, pesos, coluna_estado) ==
    IF ~(Names(variaveis) \subseteq df_norm.cols)
    THEN Raised("KeyError", df_norm)
    ELSE LET t == Classificado(df_norm, variaveis, pesos)
         IN  IF coluna_estado \notin t.cols
             THEN Raised("KeyError", t)
             ELSE [outcome |-> "ok", caller |-> t, df_norm |-> t,
                   pesos |-> NoPesos]

\* ------------------------------------------------------------------ train.py
\* sklearn's train_test_split(X, y, test_size=f, random_state=seed) with a
\* float f: n_test = ceil(f * n), n_train = n - n_test, ValueError when the
\* train set would be empty; the rows are shuffled by a permutation that the
\* seed determines, the first n_test shuffled positions are the test rows
\* and the following n_train the train rows, the same positions for X and y.
\* A subset is kept as the set of its rows (label and values).
Ceil(x) == (x.n + x.d - 1) \div x.d

Shuffles(n) ==
    {p \in [1..n -> 1..n] : \A i, j \in 1..n : p[i] = p[j] => i = j}

NoSplit == [outcome |-> "none", X_train |-> {}, X_test |-> {},
            y_train |-> {}, y_test |-> {}]

train_test_split(X, y, test_size, perm) ==
    LET n       == Len(X)
        n_test  == Ceil(RMul(test_size, Num(n)))
        n_train == n - n_test
        test    == {perm[k] : k \in 1..n_test}
        train   == {perm[k] : k \in (n_test + 1)..(n_test + n_train)}
    IN  IF n = 0 \/ n_train <= 0
        THEN [NoSplit EXCEPT !.outcome = "ValueError"]
        ELSE [outcome |-> "ok",
              X_train |-> {X[i] : i \in train}, X_test |-> {X[i] : i \in test},
              y_train |-> {y[i] : i \in train}, y_test |-> {y[i] : i \in test}]

\* X = df_norm[variaveis]: the rows restricted to the listed columns
Features(t, variaveis) ==
    [i \in DOMAIN t.rows |->
       [id |-> t.rows[i].id,
        x  |-> [f \in Names(variaveis) |-> t.rows[i].v[f]]]]

\* y = df_norm[col]
Target(t, col) ==
    [i \in DOMAIN t.rows |-> [id |-> t.rows[i].id, y |-> t.rows[i].v[col]]]

RaisedSplit(exc, caller) ==
    [outcome |-> exc, caller |-> caller, df_norm |-> NoTable,
     pesos |-> NoPesos, split |-> NoSplit]

\* What the function returns once the split is made, or the split's exception
Returned(caller, df_norm, pesos, split) ==
    IF split.outcome # "ok"
    THEN RaisedSplit(split.outcome, caller)
    ELSE [outcome |-> "ok", caller |-> caller, df_norm |-> df_norm,
          pesos |-> pesos, split |-> split]

\* Mutant: X and y split by two separate calls, each with its own shuffle
PrepararTwoSplits(database, variavel_alvo, variaveis_exp, test_size, perms) ==
    LET cols == variaveis_exp \o <<variavel_alvo>>
    IN  IF ~(Names(cols) \subseteq database.cols)
        THEN {RaisedSplit("KeyError", database)}
        ELSE LET df_norm == FitTransform(database, cols)
                 X == Features(df_norm, variaveis_exp)
                 y == Target(df_norm, variavel_alvo)
             IN  {Returned(database, df_norm, NoPesos,
                           LET sx == train_test_split(X, y, test_size, p)
                               sy == train_test_split(X, y, test_size, q)
                           IN  [sx EXCEPT !.y_train = sy.y_train,
                                          !.y_test = sy.y_test]) :
                    p \in perms, q \in perms}

\* The two functions of train.py are given the shuffles that random_state may
\* select and yield the set of their possible results, one per shuffle.
preparar_dados_para_modelo(database, variavel_alvo, variaveis_exp, test_size, perms) ==
    \* df_norm = database.copy()
    LET cols == variaveis_exp \o <<variavel_alvo>>
    IN  IF ~(Names(cols) \subseteq database.cols)
        THEN {RaisedSplit("KeyError", database)}
        ELSE LET df_norm == FitTransform(database, cols)
                 X == Features(df_norm, variaveis_exp)
                 y == Target(df_norm, variavel_alvo)
             IN  {Returned(database, df_norm, NoPesos,
                           train_test_split(X, y, test_size, perm)) :
                    perm \in perms}

calcular_indice_socioeconomico(database, variaveis, variavel_referencia, test_size, perms) ==
    \* df_norm = database.copy()
    IF ~(Names(variaveis) \subseteq database.cols)
    THEN {RaisedSplit("KeyError", database)}
    ELSE IF variavel_referencia \notin Names(variaveis)
    THEN {RaisedSplit("KeyError", database)}
    ELSE LET scaled  == FitTransform(database, variaveis)
             pesos   == PesosDeCorrelacao(scaled, variaveis, variavel_referencia)
             df_norm == SetColumn(scaled, "indice_socioeconomico",
                                  IndiceSocioeconomico(scaled, variaveis, pesos))
             X == Features(df_norm, variaveis)
             y == Target(df_norm, "indice_socioeconomico")
         IN  {Returned(database, df_norm, pesos,
                       train_test_split(X, y, test_size, perm)) :
                perm \in perms}

\* ------------------------------------------------------------------- inputs
\* Raw tables: columns estado (the row's name, here its number), a and b;
\* 1..MaxRows rows listed by ascending a.
ValsA == {0, 33, 66, 100}
ValsB == {0, 1}

Tables ==
    UNION {
      {[cols |-> {"estado", "a", "b"},
        rows |-> [i \in 1..n |->
                    [id |-> i,
                     v  |-> [c \in {"estado", "a", "b"} |->
                               IF c = "a" THEN Num(a[i])
                               ELSE IF c = "b" THEN Num(b[i])
                               ELSE Num(i)]]]] :
         a \in {f \in [1..n -> ValsA] : \A i \in 1..(n - 1) : f[i] <= f[i + 1]},
         b \in [1..n -> ValsB]} :
      n \in 1..MaxRows}

\* (variaveis, variavel_referencia): the reference among the features, a
\* numeric column outside them, a feature that is no column of the table
PesosArgs == {<<<<"a">>, "a">>, <<<<"a", "b">>, "a">>, <<<<"a", "b">>, "b">>,
              <<<<"a">>, "b">>, <<<<"a", "z">>, "a">>}
\* (variaveis, coluna_estado)
ClassificacaoArgs == {<<<<"a">>, "estado">>, <<<<"a", "b">>, "estado">>,
                      <<<<"a", "z">>, "estado">>, <<<<"a">>, "Estado">>}
\* (variaveis_exp, variavel_alvo)
PrepararArgs == {<<<<"a">>, "b">>, <<<<"a", "z">>, "b">>}
TestSizes == {Rat(3, 10), Rat(1, 2)}

NoArgs == [variaveis |-> <<>>, referencia |-> "", coluna_estado |-> "",
           test_size |-> Num(0)]

\* -------------------------------------------------------------------- state
VARIABLES
    database,    \* the caller's raw table
    df,          \* the normalized table the caller got from the latest call
    pesos,       \* the weight vector the caller got from the latest call
    split,       \* the train/test subsets the caller got from the latest call
    op,          \* the latest operation called
    args,        \* its arguments other than the table
    outcome,     \* "ok" or the exception it raised
    arg_before,  \* the table passed to it, as it was before the call
    arg_after    \* the same table object, as it is after the call

vars == <<database, df, pesos, split, op, args, outcome, arg_before, arg_after>>

Init ==
    /\ database \in Tables
    /\ df = NoTable
    /\ pesos = NoPesos
    /\ split = NoSplit
    /\ op = "none"
    /\ args = NoArgs
    /\ outcome = "none"
    /\ arg_before = NoTable
    /\ arg_after = NoTable

\* The caller runs one pipeline on its raw table: the weights and then the
\* classification, any number of times with the same arguments; or the
\* model preparation; or the index with its split.

\* df, pesos = calcular_pesos_correlacao(database, variaveis, referencia)
CallPesos ==
    /\ op = "none"
    /\ \E a \in PesosArgs :
         LET r == calcular_pesos_correlacao(database, a[1], a[2])
         IN  /\ op' = "calcular_pesos_correlacao"
             /\ args' = [NoArgs EXCEPT !.variaveis = a[1], !.referencia = a[2]]
             /\ outcome' = r.outcome
             /\ arg_before' = database
             /\ arg_after' = r.caller
             /\ database' = r.caller
             /\ df' = r.df_norm
             /\ pesos' = r.pesos
             /\ split' = NoSplit

\* calcular_classificacao_indice(df, variaveis, pesos, coluna_estado) on the
\* table and the weights the caller holds; df names the object passed in
CallClassificacao ==
    /\ \/ op = "calcular_pesos_correlacao" /\ outcome = "ok"
       \/ op = "calcular_classificacao_indice"
    /\ \E a \in ClassificacaoArgs :
         LET r == calcular_classificacao_indice(df, a[1], pesos, a[2])
         IN  /\ op = "calcular_classificacao_indice"
                  => a[1] = args.variaveis /\ a[2] = args.coluna_estado
             /\ op' = "calcular_classificacao_indice"
             /\ args' = [NoArgs EXCEPT !.variaveis = a[1], !.coluna_estado = a[2]]
             /\ outcome' = r.outcome
             /\ arg_before' = df
             /\ arg_after' = r.caller
             /\ df' = r.caller
             /\ UNCHANGED <<database, pesos, split>>

\* preparar_dados_para_modelo(database, alvo, variaveis_exp, test_size, seed)
CallPreparar ==
    /\ op = "none"
    /\ \E a \in PrepararArgs, test_size \in TestSizes :
         \E r \in preparar_dados_para_modelo(database, a[2], a[1], test_size,
                                             Shuffles(Len(database.rows))) :
             /\ op' = "preparar_dados_para_modelo"
             /\ args' = [NoArgs EXCEPT !.variaveis = a[1], !.referencia = a[2],
                                       !.test_size = test_size]
             /\ outcome' = r.outcome
             /\ arg_before' = database
             /\ arg_after' = r.caller
             /\ database' = r.caller
             /\ df' = r.df_norm
             /\ pesos' = r.pesos
             /\ split' = r.split

\* calcular_indice_socioeconomico(database, variaveis, referencia, test_size, seed)
CallIndice ==
    /\ op = "none"
    /\ \E a \in PesosArgs, test_size \in TestSizes :
         \E r \in calcular_indice_socioeconomico(database, a[1], a[2], test_size,
                                                 Shuffles(Len(database.rows))) :
             /\ op' = "calcular_indice_socioeconomico"
             /\ args' = [NoArgs EXCEPT !.variaveis = a[1], !.referencia = a[2],
                                       !.test_size = test_size]
             /\ outcome' = r.outcome
             /\ arg_before' = database
             /\ arg_after' = r.caller
             /\ database' = r.caller
             /\ df' = r.df_norm
             /\ pesos' = r.pesos
             /\ split' = r.split

Next == CallPesos \/ CallClassificacao \/ CallPreparar \/ CallIndice

Spec == Init /\ [][Next]_vars

\* ------------------------------------------------------------------- claims
Pesos == "calcular_pesos_correlacao"
Classificacao == "calcular_classificacao_indice"
Preparar == "preparar_dados_para_modelo"
Indice == "calcular_indice_socioeconomico"

Ids(S) == {r.id : r \in S}
Rows(t) == Range(t.rows)
IsConstant(t, c) == Cardinality(Range(Column(t, c))) = 1

\* the columns the latest call was asked to normalize
Listed ==
    IF op = Preparar THEN Names(args.variaveis) \cup {args.referencia}
    ELSE Names(args.variaveis)

\* the latest call was one of the three that normalize the raw table, every
\* column it names is in the table and, for the two that weigh, the
\* reference is one of the features
Normalizes ==
    /\ op \in {Pesos, Preparar, Indice}
    /\ Listed \subseteq arg_before.cols
    /\ op \in {Pesos, Indice} => args.referencia \in Names(args.variaveis)

\* the raw weighted sums and the rescaled index of the rows of the table
\* passed to the latest classification
RawSums ==
    [i \in DOMAIN arg_before.rows |->
       WeightedSum(arg_before.rows[i], args.variaveis, pesos)]
Indices == IndiceSocioeconomico(arg_before, args.variaveis, pesos)

Third(k) == Rat(33 * k, 100)
IntervalLabel(x) ==
    IF RLe(x, Third(1)) THEN "baixo"
    ELSE IF RLe(x, Third(2)) THEN "medio" ELSE "alto"

\* C1: after a classification that returns, every row of the table passed in
\* whose rescaled index is a number of [0, 1] is in the returned table with
\* the label of its interval: [0, 0.33] baixo, (0.33, 0.66] medio,
\* (0.66, 1] alto; so a row of index exactly 0 is labelled baixo.
C1_LabelByInterval ==
    (op = Classificacao /\ outcome = "ok") =>
        \A i \in DOMAIN arg_before.rows :
            IsFinite(Indices[i]) =>
                \E r \in Rows(df) :
                    /\ r.id = arg_before.rows[i].id
                    /\ r.v["classificacao"] = IntervalLabel(Indices[i])

\* C2: after a classification of a table with at least two distinct raw
\* weighted sums, every retained row has its index in [0, 1], a row of
\* maximum raw sum is retained with index 1 and a row of minimum raw sum is
\* retained with index 0.
C2_IndexRangeWithBothEnds ==
    (op = Classificacao /\ outcome = "ok"
       /\ Cardinality(Range(RawSums)) >= 2) =>
        /\ \A r \in Rows(df) :
             /\ RLe(Num(0), r.v["indice_socioeconomico"])
             /\ RLe(r.v["indice_socioeconomico"], Num(1))
        /\ \E i \in DOMAIN RawSums :
             /\ RawSums[i] = SeriesMax(RawSums)
             /\ \E r \in Rows(df) : /\ r.id = arg_before.rows[i].id
                                    /\ r.v["indice_socioeconomico"] = Num(1)
        /\ \E i \in DOMAIN RawSums :
             /\ RawSums[i] = SeriesMin(RawSums)
             /\ \E r \in Rows(df) : /\ r.id = arg_before.rows[i].id
                                    /\ r.v["indice_socioeconomico"] = Num(0)

\* C3: after any call of the four operations the table object the caller
\* passed in has the rows, the columns and the values it had before the call.
C3_CallerTableUnchanged ==
    op # "none" => arg_after = arg_before

\* C4: when the weights are returned and some feature has a non-zero
\* correlation with the reference, every weight is a number >= 0 and the
\* weights sum to 1, also when another feature column is constant.
C4_WeightsDefinedAndSumToOne ==
    (op \in {Pesos, Indice} /\ outcome = "ok"
       /\ \E f \in Names(args.variaveis) :
            LET c == Corr(Column(df, f), Column(df, args.referencia))
            IN  IsFinite(c) /\ c.n # 0) =>
        /\ \A f \in DOMAIN pesos : IsFinite(pesos[f]) /\ pesos[f].n >= 0
        /\ SumSkipNa(Along(args.variaveis, pesos)) = Num(1)

\* C5: a split that succeeds is a partition of the input rows: the train and
\* the test rows are disjoint, together they are all the rows of the table
\* passed in (train count + test count = row count), and every feature row
\* of a subset goes with the target value of the same row.
C5_SplitIsPartition ==
    (op \in {Preparar, Indice} /\ outcome = "ok") =>
        LET target == IF op = Preparar THEN args.referencia
                      ELSE "indice_socioeconomico"
            RowOf(id) == CHOOSE r \in Rows(df) : r.id = id
        IN  /\ Ids(split.X_train) \cap Ids(split.X_test) = {}
            /\ Ids(split.X_train) \cup Ids(split.X_test) = Ids(Rows(arg_before))
            /\ Cardinality(split.X_train) + Cardinality(split.X_test)
                 = Len(arg_before.rows)
            /\ Cardinality(split.y_train) + Cardinality(split.y_test)
                 = Len(arg_before.rows)
            /\ Ids(split.y_train) = Ids(split.X_train)
            /\ Ids(split.y_test) = Ids(split.X_test)
            /\ \A r \in split.X_train \cup split.X_test :
                 \A f \in DOMAIN r.x : r.x[f] = RowOf(r.id).v[f]
            /\ \A r \in split.y_train \cup split.y_test :
                 r.y = RowOf(r.id).v[target]

\* C5 witness: a split of three rows in two test rows and one train row
C5_Witness ==
    /\ op = Preparar /\ outcome = "ok"
    /\ Cardinality(split.X_test) = 2 /\ Cardinality(split.X_train) = 1
    /\ Cardinality(split.y_test) = 2

\* C6: the weight operations accept a reference that is a numeric column of
\* the table outside the feature list and return one weight per feature.
C6_ReferenceOutsideFeatures ==
    (op \in {Pesos, Indice}
       /\ Names(args.variaveis) \subseteq arg_before.cols
       /\ args.referencia \in {"a", "b"} \ Names(args.variaveis)) =>
        /\ outcome = "ok"
        /\ DOMAIN pesos = Names(args.variaveis)

\* C7: when the absolute correlations of the features with the reference sum
\* to zero or are undefined, the weight operations fail and return nothing;
\* a returned weight vector never holds NaN or an infinity.
C7_ZeroCorrelationSumFails ==
    (Normalizes /\ op \in {Pesos, Indice}) =>
        LET t == FitTransform(arg_before, args.variaveis)
            corrs == [i \in DOMAIN args.variaveis |->
                        RAbs(Corr(Column(t, args.variaveis[i]),
                                  Column(t, args.referencia)))]
        IN  /\ SumSkipNa(corrs) = Num(0) => outcome # "ok"
            /\ outcome = "ok" => \A f \in DOMAIN pesos : IsFinite(pesos[f])

\* C8 as claimed: an operation asked to normalize a column that has the same
\* value in every row raises an error and returns no normalized table.
C8_ConstantColumnRaises ==
    (Normalizes /\ \E c \in Listed : IsConstant(arg_before, c)) =>
        outcome # "ok"

\* C8 as amended: normalizing a column that has the same value in every row
\* raises nothing; the call returns, unless its split would leave the train
\* set empty, and the column is 0 in every row of the returned table.
C8_ConstantColumnScalesToZero ==
    (Normalizes /\ \E c \in Listed : IsConstant(arg_before, c)) =>
        /\ outcome \in {"ok", "ValueError"}
        /\ outcome = "ValueError" =>
             /\ op \in {Preparar, Indice}
             /\ Len(arg_before.rows)
                  <= Ceil(RMul(args.test_size, Num(Len(arg_before.rows))))
        /\ outcome = "ok" =>
             \A c \in Listed :
                 IsConstant(arg_before, c) =>
                     /\ Len(df.rows) = Len(arg_before.rows)
                     /\ \A r \in Rows(df) : r.v[c] = Num(0)

\* C8 witness: three rows with the same non-zero value in a listed column,
\* normalized and returned
C8_Witness ==
    /\ op \in {Pesos, Preparar, Indice} /\ outcome = "ok"
    /\ Len(arg_before.rows) >= 3
    /\ IsConstant(arg_before, "a")
    /\ arg_before.rows[1].v["a"] # Num(0)
    /\ \A r \in Rows(df) : r.v["a"] = Num(0)

\* C9: a call that names a column which is not in the table (a feature, the
\* identifier column) or a feature which has no weight fails, and the table
\* passed in is as it was before the call.
C9_MissingColumnFailsBeforeAnyEffect ==
    (\/ op # "none" /\ ~(Listed \subseteq arg_before.cols)
     \/ op = Classificacao /\ args.coluna_estado \notin arg_before.cols
     \/ op = Classificacao /\ ~(Names(args.variaveis) \subseteq DOMAIN pesos)) =>
        /\ outcome # "ok"
        /\ arg_after = arg_before

\* C10: a classification called again with the same arguments on the table
\* the previous call returned returns the same rows, with the same index
\* values and labels; the number of rows does not decrease.
C10_RepeatedCallReturnsTheSame ==
    [][(op = Classificacao /\ outcome = "ok"
          /\ op' = Classificacao /\ outcome' = "ok") =>
         /\ df'.rows = df.rows
         /\ Len(df'.rows) >= Len(df.rows)]_vars
====
